---- MODULE Spec2Model ----
(***************************************************************************)
(* Model of the banking repository: the account policy classes             *)
(* (banking/account.py), the pickle-backed Ledger (banking/ledger.py) and  *)
(* the Application facade (banking/application.py).                        *)
(*                                                                         *)
(* Dates are the integers YYYYMMDD, whose order is the calendar order.     *)
(* Amounts are integers (the code uses Python numbers and never rounds).   *)
(* uuid4() is a fresh value: account ids come from the counter             *)
(* nextAccountId, and a transaction's id is its position in the ordered    *)
(* transaction mapping (every save of a new Transaction appends).          *)
(***************************************************************************)
EXTENDS Integers, Sequences, FiniteSets, TLC

VARIABLES
    accounts,        \* Ledger.store["accounts"]: ordered <<[account_id, cls]>>
    transactions,    \* Ledger.store["transactions"]: ordered Transaction records
    durable,         \* content of the ledger file written by Ledger.persist
    CURRENT_DATE,    \* Application.CURRENT_DATE
    todays_date,     \* banking.date_helper.__todays_date
    nextAccountId,   \* number of uuid4() account ids handed out so far
    inflight,        \* per caller: position and locals of its Application.withdraw call
    last             \* the most recent call: its arguments and its outcome

vars == <<accounts, transactions, durable, CURRENT_DATE, todays_date, nextAccountId,
          inflight, last>>

----------------------------------------------------------------------------
(* Bounds of the model *)

MaxAccounts == 2
MaxTransactions == 3
MaxStoredTransactions == 2

AccountIds == 1..MaxAccounts

Dates == {20200331, 20200401, 20200402}

\* inputs of the account-level calls
Amounts == {-1, 0, 1, 200, 1000, 1001, 2001, 4999, 5000}
Balances == {0, 200, 1000, 3000, 5000, 7000}
Totals == {0, 1, 800, 1000, 5000}

----------------------------------------------------------------------------
(* banking/account.py *)

INT == "BankAccount_INT"
COVID19 == "BankAccount_COVID19"
COMPANY == "BankAccount_COVID19_Company"
Classes == {INT, COVID19, COMPANY}

CREDIT == "credit"
DEBIT == "debit"

MAX_DAILY_WITHDRAWAL == 1000
RESTRICTION_DATE == 20200401

MINIMUM_ACCOUNT_BALANCE(cls) == IF cls = COMPANY THEN 5000 ELSE 0

NoTransaction == [account_id |-> 0, transaction_type |-> "none", amount |-> 0, occurred_on |-> 0]

\* Transaction.create with an explicit occurred_on
Transaction_create(account_id, transaction_type, amount, occurred_on) ==
    [account_id |-> account_id, transaction_type |-> transaction_type,
     amount |-> amount, occurred_on |-> occurred_on]

Raise(error) == [raised |-> error, transaction |-> NoTransaction]
Return(transaction) == [raised |-> "ok", transaction |-> transaction]

\* BankAccount.__init__(self, opened_on): one positional argument besides self
BankAccount_init(cls, args, uuid) ==
    IF Len(args) # 1
    THEN [raised |-> "TypeError", cls |-> cls, account_id |-> 0, opened_on |-> 0]
    ELSE [raised |-> "ok", cls |-> cls, account_id |-> uuid, opened_on |-> args[1]]

\* BankAccount.assert_can_withdraw
BankAccount_assert_can_withdraw_AnyTierZero(cls, amount, current_balance, is_atm, occurring_on, total) ==
    IF ~(amount > 0) THEN "AssertionError"
    ELSE IF (current_balance - amount) < 0 THEN "InsufficientFundError"
    ELSE "ok"

BankAccount_assert_can_withdraw(cls, amount, current_balance, is_atm, occurring_on, total) ==
    IF ~(amount > 0) THEN "AssertionError"
    ELSE IF (current_balance - amount) < MINIMUM_ACCOUNT_BALANCE(cls) THEN "InsufficientFundError"
    ELSE "ok"

\* BankAccount_COVID19.assert_can_withdraw
COVID19_assert_can_withdraw_StrictDate(cls, amount, current_balance, is_atm, occurring_on, total) ==
    LET base == BankAccount_assert_can_withdraw(cls, amount, current_balance, is_atm, occurring_on, total)
    IN  IF base # "ok" THEN base
        ELSE IF occurring_on > RESTRICTION_DATE
             THEN IF is_atm THEN "ATMWithdrawalNotAllowedError"
                  ELSE IF (total + amount) > MAX_DAILY_WITHDRAWAL
                       THEN "DailyWithdrawalLimitError"
                       ELSE "ok"
             ELSE "ok"

COVID19_assert_can_withdraw_NoDateGate(cls, amount, current_balance, is_atm, occurring_on, total) ==
    LET base == BankAccount_assert_can_withdraw(cls, amount, current_balance, is_atm, occurring_on, total)
    IN  IF base # "ok" THEN base
        ELSE IF is_atm THEN "ATMWithdrawalNotAllowedError"
             ELSE IF (total + amount) > MAX_DAILY_WITHDRAWAL
                  THEN "DailyWithdrawalLimitError"
                  ELSE "ok"

COVID19_assert_can_withdraw_RulesFirst(cls, amount, current_balance, is_atm, occurring_on, total) ==
    IF ~(amount > 0) THEN "AssertionError"
    ELSE IF occurring_on >= RESTRICTION_DATE /\ is_atm THEN "ATMWithdrawalNotAllowedError"
    ELSE IF occurring_on >= RESTRICTION_DATE /\ (total + amount) > MAX_DAILY_WITHDRAWAL
         THEN "DailyWithdrawalLimitError"
    ELSE BankAccount_assert_can_withdraw(cls, amount, current_balance, is_atm, occurring_on, total)

BankAccount_COVID19_assert_can_withdraw(cls, amount, current_balance, is_atm, occurring_on, total) ==
    LET base == BankAccount_assert_can_withdraw(cls, amount, current_balance, is_atm, occurring_on, total)
    IN  IF base # "ok" THEN base
        ELSE IF occurring_on >= RESTRICTION_DATE
             THEN IF is_atm THEN "ATMWithdrawalNotAllowedError"
                  ELSE IF (total + amount) > MAX_DAILY_WITHDRAWAL
                       THEN "DailyWithdrawalLimitError"
                       ELSE "ok"
             ELSE "ok"

\* method resolution of self.assert_can_withdraw over the class hierarchy
assert_can_withdraw_AllTiersRestricted(cls, amount, current_balance, is_atm, occurring_on, total) ==
    BankAccount_COVID19_assert_can_withdraw(cls, amount, current_balance, is_atm, occurring_on, total)

assert_can_withdraw(cls, amount, current_balance, is_atm, occurring_on, total) ==
    IF cls \in {COVID19, COMPANY}
    THEN BankAccount_COVID19_assert_can_withdraw(cls, amount, current_balance, is_atm, occurring_on, total)
    ELSE BankAccount_assert_can_withdraw(cls, amount, current_balance, is_atm, occurring_on, total)

\* BankAccount.withdraw
BankAccount_withdraw(cls, self, amount, current_balance, is_atm, occurring_on, total) ==
    LET check == assert_can_withdraw(cls, amount, current_balance, is_atm, occurring_on, total)
    IN  IF check # "ok" THEN Raise(check)
        ELSE Return(Transaction_create(self, DEBIT, amount, occurring_on))

\* BankAccount.close
BankAccount_close_WithoutWithdraw(cls, self, current_balance, occurring_on, total) ==
    IF current_balance > 0
    THEN Return(Transaction_create(self, DEBIT, current_balance, occurring_on))
    ELSE Return(NoTransaction)

BankAccount_close(cls, self, current_balance, occurring_on, total) ==
    IF current_balance > 0
    THEN BankAccount_withdraw(cls, self, current_balance, current_balance, FALSE, occurring_on, total)
    ELSE Return(NoTransaction)

\* BankAccount_COVID19_Company.close
BankAccount_COVID19_Company_close(cls, self, current_balance, occurring_on, total) ==
    Raise("ClosingCompanyAccountError")

close(cls, self, current_balance, occurring_on, total) ==
    IF cls = COMPANY
    THEN BankAccount_COVID19_Company_close(cls, self, current_balance, occurring_on, total)
    ELSE BankAccount_close(cls, self, current_balance, occurring_on, total)

\* BankAccount.deposit
BankAccount_deposit_NoAssert(cls, self, amount, current_balance, occurring_on) ==
    Return(Transaction_create(self, CREDIT, amount, occurring_on))

BankAccount_deposit(cls, self, amount, current_balance, occurring_on) ==
    IF ~(amount > 0) THEN Raise("AssertionError")
    ELSE Return(Transaction_create(self, CREDIT, amount, occurring_on))

\* BankAccount_COVID19_Company.deposit
Company_deposit_NoFirstDepositRule(cls, self, amount, current_balance, occurring_on) ==
    BankAccount_deposit(cls, self, amount, current_balance, occurring_on)

Company_deposit_MinimumExclusive(cls, self, amount, current_balance, occurring_on) ==
    IF current_balance = 0 /\ amount <= MINIMUM_ACCOUNT_BALANCE(cls)
    THEN Raise("AccountError")
    ELSE BankAccount_deposit(cls, self, amount, current_balance, occurring_on)

BankAccount_COVID19_Company_deposit(cls, self, amount, current_balance, occurring_on) ==
    IF current_balance = 0 /\ amount < MINIMUM_ACCOUNT_BALANCE(cls)
    THEN Raise("AccountError")
    ELSE BankAccount_deposit(cls, self, amount, current_balance, occurring_on)

deposit(cls, self, amount, current_balance, occurring_on) ==
    IF cls = COMPANY
    THEN BankAccount_COVID19_Company_deposit(cls, self, amount, current_balance, occurring_on)
    ELSE BankAccount_deposit(cls, self, amount, current_balance, occurring_on)

----------------------------------------------------------------------------
(* The record of a call *)

Call(op, cls, account_id, amount, current_balance, is_atm, occurring_on, total, raised, transaction, result) ==
    [op |-> op, cls |-> cls, account_id |-> account_id, amount |-> amount,
     current_balance |-> current_balance, is_atm |-> is_atm,
     occurring_on |-> occurring_on, total |-> total,
     raised |-> raised, transaction |-> transaction, result |-> result]

NoCall == Call("none", "none", 0, 0, 0, FALSE, 0, 0, "ok", NoTransaction, 0)

\* the callers of the Application, and a caller that has not called yet
Callers == {1, 2}

NoAccount == [raised |-> "none", cls |-> "none", account_id |-> 0, opened_on |-> 0]

Idle == [pc |-> "idle", account_id |-> 0, amount |-> 0, is_atm |-> FALSE,
         account |-> NoAccount, current_account_balance |-> 0,
         amount_withdrawn_on_date |-> 0, transaction |-> NoTransaction, raised |-> "none"]

EmptyFile == [eof |-> TRUE, accounts |-> <<>>, transactions |-> <<>>]

Init ==
    /\ accounts = <<>>
    /\ transactions = <<>>
    /\ durable = EmptyFile
    /\ CURRENT_DATE = 20200401
    /\ todays_date = 20200401
    /\ nextAccountId = 0
    /\ inflight = [caller \in Callers |-> Idle]
    /\ last = NoCall

ledgerVars == <<accounts, transactions, durable, CURRENT_DATE, todays_date, nextAccountId,
                inflight>>

----------------------------------------------------------------------------
(* Calls on an account object, as made by a client holding the object:    *)
(* the client has chosen the method and its arguments, the step runs it.   *)

Pending(op, cls, self, amount, current_balance, is_atm, occurring_on, total) ==
    Call(op, cls, self, amount, current_balance, is_atm, occurring_on, total, "pending",
         NoTransaction, 0)

AccountCalls ==
    {Pending("BankAccount.withdraw", cls, self, amount, current_balance, is_atm, occurring_on, total) :
        cls \in Classes, self \in AccountIds, amount \in Amounts, current_balance \in Balances,
        is_atm \in BOOLEAN, occurring_on \in Dates, total \in Totals}
    \cup {Pending("BankAccount.close", cls, self, 0, current_balance, FALSE, occurring_on, total) :
        cls \in Classes, self \in AccountIds, current_balance \in Balances,
        occurring_on \in Dates, total \in Totals}
    \cup {Pending("BankAccount.deposit", cls, self, amount, current_balance, FALSE, occurring_on, 0) :
        cls \in Classes, self \in AccountIds, amount \in Amounts, current_balance \in Balances,
        occurring_on \in Dates}

InitAccount ==
    /\ accounts = <<>>
    /\ transactions = <<>>
    /\ durable = EmptyFile
    /\ CURRENT_DATE = 20200401
    /\ todays_date = 20200401
    /\ nextAccountId = 0
    /\ inflight = [caller \in Callers |-> Idle]
    /\ last \in AccountCalls

AccountWithdraw ==
    LET r == BankAccount_withdraw(last.cls, last.account_id, last.amount, last.current_balance,
                                  last.is_atm, last.occurring_on, last.total)
    IN  /\ last.op = "BankAccount.withdraw" /\ last.raised = "pending"
        /\ last' = [last EXCEPT !.raised = r.raised, !.transaction = r.transaction]
        /\ UNCHANGED ledgerVars

AccountClose ==
    LET r == close(last.cls, last.account_id, last.current_balance, last.occurring_on, last.total)
    IN  /\ last.op = "BankAccount.close" /\ last.raised = "pending"
        /\ last' = [last EXCEPT !.raised = r.raised, !.transaction = r.transaction]
        /\ UNCHANGED ledgerVars

AccountDeposit ==
    LET r == deposit(last.cls, last.account_id, last.amount, last.current_balance,
                     last.occurring_on)
    IN  /\ last.op = "BankAccount.deposit" /\ last.raised = "pending"
        /\ last' = [last EXCEPT !.raised = r.raised, !.transaction = r.transaction]
        /\ UNCHANGED ledgerVars

NextAccount == AccountWithdraw \/ AccountClose \/ AccountDeposit

SpecAccount == InitAccount /\ [][NextAccount]_vars

----------------------------------------------------------------------------
(* banking/ledger.py *)

\* Transaction.__radd__
Transaction_radd_AlwaysAdds(self, other) == other + self.amount

Transaction_radd(self, other) ==
    IF self.transaction_type = CREDIT THEN other + self.amount ELSE other - self.amount

\* the builtin sum(list): 0 + list[1] + list[2] + ..., each + resolved by __radd__
RECURSIVE sum(_)
sum(list) ==
    IF list = <<>> THEN 0
    ELSE Transaction_radd(list[Len(list)], sum(SubSeq(list, 1, Len(list) - 1)))

abs(x) == IF x < 0 THEN 0 - x ELSE x

\* Ledger.get_account_balance
get_account_balance_AllAccounts(store_transactions, account_id) ==
    sum(store_transactions)

get_account_balance(store_transactions, account_id) ==
    LET account_transactions ==
            SelectSeq(store_transactions, LAMBDA transaction : transaction.account_id = account_id)
    IN  sum(account_transactions)

\* Ledger.get_total_withdrawn_amount_by_date: the date argument is not used
get_total_withdrawn_amount_by_date(store_transactions, account_id, date) ==
    LET withdrawal_transactions ==
            SelectSeq(store_transactions,
                      LAMBDA transaction : /\ transaction.transaction_type = DEBIT
                                           /\ transaction.account_id = account_id)
    IN  abs(sum(withdrawal_transactions))

\* keys of store["accounts"], and the class stored under a key
account_keys(store_accounts) == {store_accounts[i].account_id : i \in DOMAIN store_accounts}

stored_class(store_accounts, account_id) ==
    IF account_id \in account_keys(store_accounts)
    THEN store_accounts[CHOOSE i \in DOMAIN store_accounts :
                            store_accounts[i].account_id = account_id].cls
    ELSE "none"

\* Ledger.get_account: the stored class is called with three positional arguments
get_account(store_accounts, store_transactions, account_id, current_date) ==
    IF account_id \notin account_keys(store_accounts)
    THEN [raised |-> "AccountNotFoundError", cls |-> "none", account_id |-> 0, opened_on |-> 0]
    ELSE LET account_class == stored_class(store_accounts, account_id)
             current_balance == get_account_balance(store_transactions, account_id)
             amount_withdrawn_today ==
                 get_total_withdrawn_amount_by_date(store_transactions, account_id, current_date)
         IN  BankAccount_init(account_class,
                              <<account_id, current_balance, amount_withdrawn_today>>, 0)

\* pickle.dump of the store, and pickle.load of the file
pickle_dump_AccountsOnly(store_accounts, store_transactions) ==
    [eof |-> FALSE,
     accounts |-> [i \in DOMAIN store_accounts |->
                     <<store_accounts[i].account_id, store_accounts[i].cls>>],
     transactions |-> <<>>]

pickle_dump(store_accounts, store_transactions) ==
    [eof |-> FALSE,
     accounts |-> [i \in DOMAIN store_accounts |->
                     <<store_accounts[i].account_id, store_accounts[i].cls>>],
     transactions |-> [i \in DOMAIN store_transactions |->
                     <<store_transactions[i].account_id, store_transactions[i].transaction_type,
                       store_transactions[i].amount, store_transactions[i].occurred_on>>]]

pickle_load_Reversed(file) ==
    IF file.eof
    THEN [raised |-> "EOFError", accounts |-> <<>>, transactions |-> <<>>]
    ELSE [raised |-> "ok",
          accounts |-> [i \in DOMAIN file.accounts |->
                          [account_id |-> file.accounts[Len(file.accounts) + 1 - i][1],
                           cls |-> file.accounts[Len(file.accounts) + 1 - i][2]]],
          transactions |-> [i \in DOMAIN file.transactions |->
                          Transaction_create(file.transactions[Len(file.transactions) + 1 - i][1],
                                             file.transactions[Len(file.transactions) + 1 - i][2],
                                             file.transactions[Len(file.transactions) + 1 - i][3],
                                             file.transactions[Len(file.transactions) + 1 - i][4])]]

pickle_load(file) ==
    IF file.eof
    THEN [raised |-> "EOFError", accounts |-> <<>>, transactions |-> <<>>]
    ELSE [raised |-> "ok",
          accounts |-> [i \in DOMAIN file.accounts |->
                          [account_id |-> file.accounts[i][1], cls |-> file.accounts[i][2]]],
          transactions |-> [i \in DOMAIN file.transactions |->
                          Transaction_create(file.transactions[i][1], file.transactions[i][2],
                                             file.transactions[i][3], file.transactions[i][4])]]

\* Ledger.all_account_ids: the keys of the ordered mapping, in its order
all_account_ids(store_accounts) ==
    [i \in DOMAIN store_accounts |-> store_accounts[i].account_id]

\* Ledger.all_transaction_ids
all_transaction_ids(store_transactions) == [i \in DOMAIN store_transactions |-> i]

\* Ledger.save_object(transaction): save_to_store, then persist
LedgerSaveTransaction(transaction) ==
    /\ transactions' = Append(transactions, transaction)
    /\ durable' = pickle_dump(accounts, transactions')
    /\ last' = Call("Ledger.save_object", "none", transaction.account_id, transaction.amount, 0,
                    FALSE, transaction.occurred_on, 0, "ok", transaction, 0)
    /\ UNCHANGED <<accounts, CURRENT_DATE, todays_date, nextAccountId, inflight>>

LedgerGetAccountBalance(account_id) ==
    /\ last' = Call("Ledger.get_account_balance", "none", account_id, 0, 0, FALSE, 0, 0, "ok",
                    NoTransaction, get_account_balance(transactions, account_id))
    /\ UNCHANGED ledgerVars

LedgerGetTotalWithdrawnAmountByDate(account_id, date) ==
    /\ last' = Call("Ledger.get_total_withdrawn_amount_by_date", "none", account_id, 0, 0, FALSE,
                    date, 0, "ok", NoTransaction,
                    get_total_withdrawn_amount_by_date(transactions, account_id, date))
    /\ UNCHANGED ledgerVars

\* Ledger.get_account
LedgerGetAccount(account_id) ==
    LET account == get_account(accounts, transactions, account_id, todays_date)
    IN  /\ last' = Call("Ledger.get_account", stored_class(accounts, account_id), account_id, 0,
                        0, FALSE, 0, 0, account.raised, NoTransaction, account.account_id)
        /\ UNCHANGED ledgerVars

\* Ledger.close_account: del store["accounts"][account_id], then persist
LedgerCloseAccount_NoPersist(account_id) ==
    IF account_id \in account_keys(accounts)
    THEN /\ accounts' = SelectSeq(accounts, LAMBDA a : a.account_id # account_id)
         /\ last' = Call("Ledger.close_account", stored_class(accounts, account_id), account_id,
                         0, 0, FALSE, 0, 0, "ok", NoTransaction, 0)
         /\ UNCHANGED <<transactions, durable, CURRENT_DATE, todays_date, nextAccountId, inflight>>
    ELSE /\ last' = Call("Ledger.close_account", "none", account_id, 0, 0, FALSE, 0, 0,
                         "AccountNotFoundError", NoTransaction, 0)
         /\ UNCHANGED ledgerVars

LedgerCloseAccount_PurgesHistory(account_id) ==
    IF account_id \in account_keys(accounts)
    THEN /\ accounts' = SelectSeq(accounts, LAMBDA a : a.account_id # account_id)
         /\ transactions' = SelectSeq(transactions, LAMBDA t : t.account_id # account_id)
         /\ durable' = pickle_dump(accounts', transactions')
         /\ last' = Call("Ledger.close_account", stored_class(accounts, account_id), account_id,
                         0, 0, FALSE, 0, 0, "ok", NoTransaction, 0)
         /\ UNCHANGED <<CURRENT_DATE, todays_date, nextAccountId, inflight>>
    ELSE /\ last' = Call("Ledger.close_account", "none", account_id, 0, 0, FALSE, 0, 0,
                         "AccountNotFoundError", NoTransaction, 0)
         /\ UNCHANGED ledgerVars

LedgerCloseAccount_PopsLast(account_id) ==
    IF account_id \in account_keys(accounts)
    THEN /\ accounts' = SubSeq(accounts, 1, Len(accounts) - 1)
         /\ durable' = pickle_dump(accounts', transactions)
         /\ last' = Call("Ledger.close_account", stored_class(accounts, account_id), account_id,
                         0, 0, FALSE, 0, 0, "ok", NoTransaction, 0)
         /\ UNCHANGED <<transactions, CURRENT_DATE, todays_date, nextAccountId, inflight>>
    ELSE /\ last' = Call("Ledger.close_account", "none", account_id, 0, 0, FALSE, 0, 0,
                         "AccountNotFoundError", NoTransaction, 0)
         /\ UNCHANGED ledgerVars

LedgerCloseAccount(account_id) ==
    IF account_id \in account_keys(accounts)
    THEN /\ accounts' = SelectSeq(accounts, LAMBDA a : a.account_id # account_id)
         /\ durable' = pickle_dump(accounts', transactions)
         /\ last' = Call("Ledger.close_account", stored_class(accounts, account_id), account_id,
                         0, 0, FALSE, 0, 0, "ok", NoTransaction, 0)
         /\ UNCHANGED <<transactions, CURRENT_DATE, todays_date, nextAccountId, inflight>>
    ELSE /\ last' = Call("Ledger.close_account", "none", account_id, 0, 0, FALSE, 0, 0,
                         "AccountNotFoundError", NoTransaction, 0)
         /\ UNCHANGED ledgerVars

\* Ledger.load
LedgerLoad ==
    LET loaded == pickle_load(durable)
    IN  /\ accounts' = loaded.accounts
        /\ transactions' = loaded.transactions
        /\ last' = Call("Ledger.load", "none", 0, 0, 0, FALSE, 0, 0, "ok", NoTransaction, 0)
        /\ UNCHANGED <<durable, CURRENT_DATE, todays_date, nextAccountId, inflight>>

\* transactions a client hands to Ledger.save_object
LedgerTransactions ==
    {Transaction_create(account_id, transaction_type, 200, 20200331) :
        account_id \in AccountIds, transaction_type \in {CREDIT, DEBIT}}
    \cup {Transaction_create(account_id, transaction_type, 500, 20200401) :
        account_id \in AccountIds, transaction_type \in {CREDIT, DEBIT}}

NextLedger ==
    \/ \E transaction \in LedgerTransactions :
          /\ Len(transactions) < MaxTransactions
          /\ LedgerSaveTransaction(transaction)
    \/ \E account_id \in AccountIds : LedgerGetAccountBalance(account_id)
    \/ \E account_id \in AccountIds, date \in {20200331, 20200401} :
          LedgerGetTotalWithdrawnAmountByDate(account_id, date)

SpecLedger == Init /\ [][NextLedger]_vars

----------------------------------------------------------------------------
(* banking/application.py *)

\* Application.ACCOUNT_TYPE_CLASS_MAPPING
ACCOUNT_TYPE_CLASS_MAPPING(account_type) ==
    CASE account_type = "international" -> INT
      [] account_type = "covid" -> COVID19
      [] account_type = "company" -> COMPANY

AccountTypes == {"international", "covid", "company"}

\* Application.change_current_date: assigns the attribute of the Application
ChangeCurrentDate(new_date) ==
    /\ CURRENT_DATE' = new_date
    /\ last' = Call("Application.change_current_date", "none", 0, 0, 0, FALSE, new_date, 0, "ok",
                    NoTransaction, 0)
    /\ UNCHANGED <<accounts, transactions, durable, todays_date, nextAccountId, inflight>>

\* Application.open_account: cls.open(CURRENT_DATE), then Ledger.save_object
OpenAccount_ReusesClosedId(account_type) ==
    LET cls == ACCOUNT_TYPE_CLASS_MAPPING(account_type)
        free == {id \in 1..(nextAccountId + 1) : id \notin account_keys(accounts)}
        uuid == CHOOSE id \in free : \A other \in free : id <= other
        account == BankAccount_init(cls, <<CURRENT_DATE>>, uuid)
    IN  /\ nextAccountId < MaxAccounts
        /\ nextAccountId' = nextAccountId + 1
        /\ accounts' = Append(accounts, [account_id |-> account.account_id, cls |-> cls])
        /\ durable' = pickle_dump(accounts', transactions)
        /\ last' = Call("Application.open_account", cls, account.account_id, 0, 0, FALSE,
                        CURRENT_DATE, 0, account.raised, NoTransaction, account.account_id)
        /\ UNCHANGED <<transactions, CURRENT_DATE, todays_date, inflight>>

OpenAccount(account_type) ==
    LET cls == ACCOUNT_TYPE_CLASS_MAPPING(account_type)
        account == BankAccount_init(cls, <<CURRENT_DATE>>, nextAccountId + 1)
    IN  /\ nextAccountId < MaxAccounts
        /\ nextAccountId' = nextAccountId + 1
        /\ accounts' = Append(accounts, [account_id |-> account.account_id, cls |-> cls])
        /\ durable' = pickle_dump(accounts', transactions)
        /\ last' = Call("Application.open_account", cls, account.account_id, 0, 0, FALSE,
                        CURRENT_DATE, 0, account.raised, NoTransaction, account.account_id)
        /\ UNCHANGED <<transactions, CURRENT_DATE, todays_date, inflight>>

\* Application.deposit
Deposit_SavesBeforeResolving(account_id, amount) ==
    LET account == get_account(accounts, transactions, account_id, todays_date)
        current_account_balance == get_account_balance(transactions, account_id)
        transaction == Transaction_create(account_id, CREDIT, amount, CURRENT_DATE)
    IN  /\ last' = Call("Application.deposit", stored_class(accounts, account_id), account_id,
                        amount, current_account_balance, FALSE, CURRENT_DATE, 0, account.raised,
                        transaction, 0)
        /\ Len(transactions) < MaxStoredTransactions
        /\ transactions' = Append(transactions, transaction)
        /\ durable' = pickle_dump(accounts, transactions')
        /\ UNCHANGED <<accounts, CURRENT_DATE, todays_date, nextAccountId, inflight>>

Deposit(account_id, amount) ==
    LET account == get_account(accounts, transactions, account_id, todays_date)
        current_account_balance == get_account_balance(transactions, account_id)
        r == IF account.raised # "ok" THEN Raise(account.raised)
             ELSE deposit(account.cls, account.account_id, amount, current_account_balance,
                          CURRENT_DATE)
    IN  /\ last' = Call("Application.deposit", stored_class(accounts, account_id), account_id,
                        amount, current_account_balance, FALSE, CURRENT_DATE, 0, r.raised,
                        r.transaction, 0)
        /\ IF r.raised = "ok"
           THEN /\ Len(transactions) < MaxStoredTransactions
                /\ transactions' = Append(transactions, r.transaction)
                /\ durable' = pickle_dump(accounts, transactions')
                /\ UNCHANGED <<accounts, CURRENT_DATE, todays_date, nextAccountId, inflight>>
           ELSE UNCHANGED ledgerVars

\* Application.withdraw
Withdraw(account_id, amount, is_atm) ==
    LET account == get_account(accounts, transactions, account_id, todays_date)
        current_account_balance == get_account_balance(transactions, account_id)
        amount_withdrawn_on_date ==
            get_total_withdrawn_amount_by_date(transactions, account_id, CURRENT_DATE)
        r == IF account.raised # "ok" THEN Raise(account.raised)
             ELSE BankAccount_withdraw(account.cls, account.account_id, amount,
                                       current_account_balance, is_atm, CURRENT_DATE,
                                       amount_withdrawn_on_date)
    IN  /\ last' = Call("Application.withdraw", stored_class(accounts, account_id), account_id,
                        amount, current_account_balance, is_atm, CURRENT_DATE,
                        amount_withdrawn_on_date, r.raised, r.transaction, 0)
        /\ IF r.raised = "ok"
           THEN /\ Len(transactions) < MaxStoredTransactions
                /\ transactions' = Append(transactions, r.transaction)
                /\ durable' = pickle_dump(accounts, transactions')
                /\ UNCHANGED <<accounts, CURRENT_DATE, todays_date, nextAccountId, inflight>>
           ELSE UNCHANGED ledgerVars

\* Application.close_account
CloseAccount(account_id) ==
    LET account == get_account(accounts, transactions, account_id, todays_date)
        current_account_balance == get_account_balance(transactions, account_id)
        amount_withdrawn_today ==
            get_total_withdrawn_amount_by_date(transactions, account_id, CURRENT_DATE)
        r == IF account.raised # "ok" THEN Raise(account.raised)
             ELSE close(account.cls, account.account_id, current_account_balance, CURRENT_DATE,
                        amount_withdrawn_today)
    IN  /\ last' = Call("Application.close_account", stored_class(accounts, account_id),
                        account_id, 0, current_account_balance, FALSE, CURRENT_DATE,
                        amount_withdrawn_today, r.raised, r.transaction, 0)
        /\ IF r.raised = "ok"
           THEN /\ r.transaction # NoTransaction => Len(transactions) < MaxStoredTransactions
                /\ transactions' = IF r.transaction # NoTransaction
                                   THEN Append(transactions, r.transaction)
                                   ELSE transactions
                /\ accounts' = SelectSeq(accounts, LAMBDA a : a.account_id # account_id)
                /\ durable' = pickle_dump(accounts', transactions')
                /\ UNCHANGED <<CURRENT_DATE, todays_date, nextAccountId, inflight>>
           ELSE UNCHANGED ledgerVars

\* isinstance(account, base) over the class hierarchy of banking/account.py
isinstance(cls, base) ==
    \/ cls = base
    \/ cls = COMPANY /\ base = COVID19

\* Application.__get_account_type: the tests are made in this order
get_account_type(cls) ==
    IF isinstance(cls, COVID19) THEN "covid"
    ELSE IF isinstance(cls, COMPANY) THEN "company"
    ELSE IF isinstance(cls, INT) THEN "international"
    ELSE "Exception"

\* str(account_id), opened_on.strftime("%Y-%m-%d") and f"{balance} PLN"
str(account_id) == <<"str", account_id>>
strftime(date) == <<date \div 10000, (date \div 100) % 100, date % 100>>
PLN(balance) == <<balance, "PLN">>

NoDetails == [account_id |-> str(0), opened_on |-> strftime(0), balance |-> PLN(0),
              type |-> "none"]

\* Transaction.to_dict
to_dict(transaction, transaction_id) ==
    [transaction_id |-> str(transaction_id),
     account_id |-> str(transaction.account_id),
     transaction_type |-> transaction.transaction_type,
     occurred_on |-> strftime(transaction.occurred_on),
     amount |-> PLN(transaction.amount)]

\* Application.all_transactions
all_transactions(store_transactions) ==
    [i \in DOMAIN store_transactions |->
        to_dict(store_transactions[i], all_transaction_ids(store_transactions)[i])]

\* Application.get_account_details
GetAccountDetails(account_id) ==
    LET account == get_account(accounts, transactions, account_id, todays_date)
        balance == get_account_balance(transactions, account_id)
        result == IF account.raised # "ok" THEN NoDetails
                  ELSE [account_id |-> str(account_id),
                        opened_on |-> strftime(account.opened_on),
                        balance |-> PLN(balance),
                        type |-> get_account_type(account.cls)]
    IN  /\ last' = Call("Application.get_account_details", stored_class(accounts, account_id),
                        account_id, 0, balance, FALSE, CURRENT_DATE, 0, account.raised,
                        NoTransaction, result)
        /\ UNCHANGED ledgerVars

\* amounts a client passes to Application.deposit and Application.withdraw
AppAmounts == {0, 200, 5000}

\* transactions a client hands to Ledger.save_object next to the Application
StoredTransactions ==
    {Transaction_create(account_id, CREDIT, 3000, 20200331) : account_id \in AccountIds}
    \cup {Transaction_create(account_id, DEBIT, 2000, 20200331) : account_id \in AccountIds}

\* dates a client passes to Application.change_current_date
AppDates == {20200331, 20200401}

NextApplication ==
    \/ \E account_type \in AccountTypes : OpenAccount(account_type)
    \/ \E new_date \in AppDates : ChangeCurrentDate(new_date)
    \/ \E account_id \in AccountIds, amount \in AppAmounts : Deposit(account_id, amount)
    \/ \E account_id \in AccountIds, amount \in AppAmounts, is_atm \in BOOLEAN :
          Withdraw(account_id, amount, is_atm)
    \/ \E account_id \in AccountIds : CloseAccount(account_id)
    \/ \E account_id \in AccountIds : GetAccountDetails(account_id)

NextStore ==
    \/ \E transaction \in StoredTransactions :
          /\ transaction.account_id <= nextAccountId
          /\ Len(transactions) < MaxStoredTransactions
          /\ LedgerSaveTransaction(transaction)
    \/ \E account_id \in AccountIds : LedgerGetAccount(account_id)
    \/ \E account_id \in AccountIds : LedgerCloseAccount(account_id)
    \/ LedgerLoad

Next == NextApplication \/ NextStore

Spec == Init /\ [][Next]_vars

\* The life of the account ids alone: opening, resolving, closing and reloading,
\* next to the funding of the first account by a client of the Ledger.
FundingTransactions ==
    {Transaction_create(1, CREDIT, 1000, 20200331), Transaction_create(1, CREDIT, 1000, 20200401)}

LiveAmounts == {0, 200}

NextLive ==
    \/ \E account_type \in AccountTypes : OpenAccount(account_type)
    \/ \E account_id \in AccountIds, amount \in LiveAmounts : Deposit(account_id, amount)
    \/ \E account_id \in AccountIds, amount \in LiveAmounts : Withdraw(account_id, amount, FALSE)
    \/ \E account_id \in AccountIds : CloseAccount(account_id)
    \/ \E account_id \in AccountIds : GetAccountDetails(account_id)
    \/ \E transaction \in FundingTransactions :
          /\ transaction.account_id <= nextAccountId
          /\ Len(transactions) < MaxStoredTransactions
          /\ LedgerSaveTransaction(transaction)
    \/ \E account_id \in AccountIds : LedgerCloseAccount(account_id)
    \/ LedgerLoad

SpecLive == Init /\ [][NextLive]_vars

\* Ledger.persist raising an OSError: either open(filename, "wb") fails and the file
\* is as it was, or open has truncated the file and pickle.dump fails
FailedPersist(file) == {file, EmptyFile}

\* Ledger.save_object(transaction) when persist raises
LedgerSaveTransactionPersistFails(transaction, file) ==
    /\ transactions' = Append(transactions, transaction)
    /\ durable' = file
    /\ last' = Call("Ledger.save_object", "none", transaction.account_id, transaction.amount, 0,
                    FALSE, transaction.occurred_on, 0, "OSError", transaction, 0)
    /\ UNCHANGED <<accounts, CURRENT_DATE, todays_date, nextAccountId, inflight>>

\* Application.open_account when persist raises
OpenAccountPersistFails(account_type, file) ==
    LET cls == ACCOUNT_TYPE_CLASS_MAPPING(account_type)
        account == BankAccount_init(cls, <<CURRENT_DATE>>, nextAccountId + 1)
    IN  /\ nextAccountId < MaxAccounts
        /\ nextAccountId' = nextAccountId + 1
        /\ accounts' = Append(accounts, [account_id |-> account.account_id, cls |-> cls])
        /\ durable' = file
        /\ last' = Call("Application.open_account", cls, account.account_id, 0, 0, FALSE,
                        CURRENT_DATE, 0, "OSError", NoTransaction, 0)
        /\ UNCHANGED <<transactions, CURRENT_DATE, todays_date, inflight>>

\* Ledger.close_account when persist raises: OSError is not the KeyError it catches
LedgerCloseAccountPersistFails(account_id, file) ==
    /\ account_id \in account_keys(accounts)
    /\ accounts' = SelectSeq(accounts, LAMBDA a : a.account_id # account_id)
    /\ durable' = file
    /\ last' = Call("Ledger.close_account", stored_class(accounts, account_id), account_id,
                    0, 0, FALSE, 0, 0, "OSError", NoTransaction, 0)
    /\ UNCHANGED <<transactions, CURRENT_DATE, todays_date, nextAccountId, inflight>>

NextPersistFails ==
    \/ \E transaction \in FundingTransactions, file \in FailedPersist(durable) :
          /\ transaction.account_id <= nextAccountId
          /\ Len(transactions) < MaxStoredTransactions
          /\ LedgerSaveTransactionPersistFails(transaction, file)
    \/ \E account_type \in AccountTypes, file \in FailedPersist(durable) :
          OpenAccountPersistFails(account_type, file)
    \/ \E account_id \in AccountIds, file \in FailedPersist(durable) :
          LedgerCloseAccountPersistFails(account_id, file)

SpecPersist == Init /\ [][NextLive \/ NextPersistFails]_vars

----------------------------------------------------------------------------
(* Application.withdraw statement by statement, for two callers whose calls  *)
(* overlap: the statements of the two calls alternate.                       *)

\* the statements of Application.withdraw, in program order
Rank(pc) ==
    CASE pc = "idle" -> 0
      [] pc = "get_account" -> 1
      [] pc = "get_account_balance" -> 2
      [] pc = "get_total_withdrawn_amount_by_date" -> 3
      [] pc = "withdraw" -> 4
      [] pc = "save_transaction" -> 5
      [] pc = "done" -> 6

\* the schedule: caller 1 moves when it is not ahead of caller 2, caller 2 when behind
Scheduled(caller) ==
    IF caller = 1
    THEN Rank(inflight[1].pc) <= Rank(inflight[2].pc)
    ELSE Rank(inflight[2].pc) < Rank(inflight[1].pc)

\* the call of Application.withdraw(account_id, amount, is_atm) by a caller
WithdrawCall(caller, account_id, amount, is_atm) ==
    /\ inflight[caller].pc = "idle"
    /\ Scheduled(caller)
    /\ inflight' = [inflight EXCEPT ![caller] =
                        [Idle EXCEPT !.pc = "get_account", !.account_id = account_id,
                                     !.amount = amount, !.is_atm = is_atm]]
    /\ UNCHANGED <<accounts, transactions, durable, CURRENT_DATE, todays_date, nextAccountId,
                   last>>

\* the record of a call of Application.withdraw that has returned or raised
WithdrawDone(call) ==
    Call("Application.withdraw", stored_class(accounts, call.account_id), call.account_id,
         call.amount, call.current_account_balance, call.is_atm, CURRENT_DATE,
         call.amount_withdrawn_on_date, call.raised, call.transaction, 0)

\* the next statement of the caller's Application.withdraw
WithdrawStep(caller) ==
    LET call == inflight[caller]
        account == get_account(accounts, transactions, call.account_id, todays_date)
        r == BankAccount_withdraw(call.account.cls, call.account.account_id, call.amount,
                                  call.current_account_balance, call.is_atm, CURRENT_DATE,
                                  call.amount_withdrawn_on_date)
        next ==
            CASE call.pc = "get_account" ->
                     IF account.raised # "ok"
                     THEN [call EXCEPT !.pc = "done", !.raised = account.raised]
                     ELSE [call EXCEPT !.pc = "get_account_balance", !.account = account]
              [] call.pc = "get_account_balance" ->
                     [call EXCEPT !.pc = "get_total_withdrawn_amount_by_date",
                                  !.current_account_balance =
                                      get_account_balance(transactions, call.account_id)]
              [] call.pc = "get_total_withdrawn_amount_by_date" ->
                     [call EXCEPT !.pc = "withdraw",
                                  !.amount_withdrawn_on_date =
                                      get_total_withdrawn_amount_by_date(
                                          transactions, call.account_id, CURRENT_DATE)]
              [] call.pc = "withdraw" ->
                     IF r.raised # "ok"
                     THEN [call EXCEPT !.pc = "done", !.raised = r.raised]
                     ELSE [call EXCEPT !.pc = "save_transaction", !.transaction = r.transaction]
              [] call.pc = "save_transaction" ->
                     [call EXCEPT !.pc = "done", !.raised = "ok"]
    IN  /\ call.pc \notin {"idle", "done"}
        /\ Scheduled(caller)
        /\ inflight' = [inflight EXCEPT ![caller] = next]
        /\ transactions' = IF call.pc = "save_transaction"
                           THEN Append(transactions, call.transaction)
                           ELSE transactions
        /\ durable' = IF call.pc = "save_transaction"
                      THEN pickle_dump(accounts, transactions')
                      ELSE durable
        /\ last' = IF next.pc = "done" THEN WithdrawDone(next) ELSE last
        /\ UNCHANGED <<accounts, CURRENT_DATE, todays_date, nextAccountId>>

\* amounts the two callers withdraw
InterleavedAmounts == {200, 1000}

\* the accounts are opened and funded before the two calls begin
NextInterleaved ==
    \/ \E account_type \in AccountTypes :
          /\ \A caller \in Callers : inflight[caller].pc = "idle"
          /\ OpenAccount(account_type)
    \/ \E transaction \in FundingTransactions :
          /\ \A caller \in Callers : inflight[caller].pc = "idle"
          /\ transaction.account_id <= nextAccountId
          /\ Len(transactions) < MaxStoredTransactions
          /\ LedgerSaveTransaction(transaction)
    \/ \E caller \in Callers, account_id \in AccountIds, amount \in InterleavedAmounts,
           is_atm \in BOOLEAN :
          WithdrawCall(caller, account_id, amount, is_atm)
    \/ \E caller \in Callers : WithdrawStep(caller)

SpecInterleaved == Init /\ [][NextInterleaved]_vars

\* Two accounts side by side: the Application calls on either of them, next to a
\* client of the Ledger that records a credit and then a debit for either account
\* and closes accounts.
FrameTransactions ==
    {Transaction_create(account_id, CREDIT, 3000, 20200331) : account_id \in {1, 2}}
    \cup {Transaction_create(account_id, DEBIT, 2000, 20200401) : account_id \in {1, 2}}

NextFrame ==
    \/ \E account_type \in AccountTypes : OpenAccount(account_type)
    \/ \E account_id \in AccountIds, amount \in LiveAmounts : Deposit(account_id, amount)
    \/ \E account_id \in AccountIds, amount \in LiveAmounts : Withdraw(account_id, amount, FALSE)
    \/ \E account_id \in AccountIds : CloseAccount(account_id)
    \/ \E transaction \in FrameTransactions :
          /\ transaction.account_id <= nextAccountId
          /\ transaction.transaction_type = DEBIT
                 => get_account_balance(transactions, transaction.account_id) >= transaction.amount
          /\ Len(transactions) < MaxStoredTransactions
          /\ LedgerSaveTransaction(transaction)
    \/ \E account_id \in AccountIds : LedgerCloseAccount(account_id)

SpecFrame == Init /\ [][NextFrame]_vars

----------------------------------------------------------------------------
(* Properties *)

Restricted == {COVID19, COMPANY}

TierMinimum(cls) == IF cls = COMPANY THEN 5000 ELSE 0

Done(op) == last.op = op /\ last.raised # "pending"

\* sum of the amounts of the transactions at the positions I, in no particular order
RECURSIVE SumAmounts(_, _)
SumAmounts(txns, I) ==
    IF I = {} THEN 0
    ELSE LET i == CHOOSE j \in I : TRUE
         IN  txns[i].amount + SumAmounts(txns, I \ {i})

Positions(txns, account_id, transaction_type) ==
    {i \in DOMAIN txns : /\ txns[i].account_id = account_id
                         /\ txns[i].transaction_type = transaction_type}

Reorderings(txns) ==
    {[i \in DOMAIN txns |-> txns[p[i]]] : p \in Permutations(DOMAIN txns)}

\* C1: for any recorded transactions, Ledger.get_account_balance(a) is the sum of
\* a's Credit amounts minus the sum of a's Debit amounts, counts nothing of any
\* other account, and is the same for every order of recording.
C1_BalanceIsCreditsMinusDebits ==
    \A a \in AccountIds :
        LET expected == SumAmounts(transactions, Positions(transactions, a, CREDIT))
                        - SumAmounts(transactions, Positions(transactions, a, DEBIT))
        IN  /\ get_account_balance(transactions, a) = expected
            /\ \A reordered \in Reorderings(transactions) :
                   get_account_balance(reordered, a) = expected
            /\ (last.op = "Ledger.get_account_balance" /\ last.account_id = a)
                   => last.result = expected

C1_Witness ==
    /\ Len(transactions) = 3
    /\ last.op = "Ledger.get_account_balance"
    /\ Positions(transactions, last.account_id, CREDIT) # {}
    /\ Positions(transactions, last.account_id, DEBIT) # {}
    /\ \E i \in DOMAIN transactions : transactions[i].account_id # last.account_id
    /\ transactions[1].transaction_type = DEBIT
    /\ last.result = 300

\* C2: on every tier a withdraw of amount > 0 with current_balance - amount below the
\* tier's minimum (0 foreign and restricted, 5000 company) fails with
\* InsufficientFundError and produces no transaction, whatever the date, the method
\* and the amount already withdrawn that day.
C2_InsufficientFundsOnEveryTier ==
    (/\ Done("BankAccount.withdraw")
     /\ last.amount > 0
     /\ last.current_balance - last.amount < TierMinimum(last.cls))
    => (last.raised = "InsufficientFundError" /\ last.transaction = NoTransaction)

C2_Witness ==
    /\ Done("BankAccount.withdraw")
    /\ last.cls = COMPANY /\ last.current_balance = 5000 /\ last.amount = 200
    /\ last.occurring_on < RESTRICTION_DATE /\ last.is_atm /\ last.total = 5000
    /\ last.raised = "InsufficientFundError"

\* C4: for a restricted-tier account with sufficient funds, every ATM withdraw dated
\* on or after the restriction date fails with ATMWithdrawalNotAllowedError, for
\* every positive amount and every amount already withdrawn that day.
C4_AtmRefusedFromRestrictionDate ==
    (/\ Done("BankAccount.withdraw")
     /\ last.cls \in Restricted
     /\ last.amount > 0
     /\ last.current_balance - last.amount >= TierMinimum(last.cls)
     /\ last.is_atm
     /\ last.occurring_on >= 20200401)
    => (last.raised = "ATMWithdrawalNotAllowedError" /\ last.transaction = NoTransaction)

C4_Witness ==
    /\ Done("BankAccount.withdraw")
    /\ last.cls = COVID19 /\ last.is_atm /\ last.occurring_on = 20200401
    /\ last.amount = 1 /\ last.current_balance = 3000 /\ last.total = 0
    /\ last.raised = "ATMWithdrawalNotAllowedError"

\* C6: for a restricted-tier account a withdraw dated strictly before the restriction
\* date can fail only with InsufficientFundError; with sufficient funds it succeeds,
\* ATM or not, for any amount and any amount already withdrawn that day.
C6_BeforeRestrictionDateOnlyFunds ==
    (/\ Done("BankAccount.withdraw")
     /\ last.cls \in Restricted
     /\ last.amount > 0
     /\ last.occurring_on < 20200401)
    => /\ last.raised \in {"ok", "InsufficientFundError"}
       /\ (last.current_balance - last.amount >= TierMinimum(last.cls))
              => /\ last.raised = "ok"
                 /\ last.transaction = Transaction_create(last.account_id, DEBIT, last.amount,
                                                          last.occurring_on)

C6_Witness ==
    /\ Done("BankAccount.withdraw")
    /\ last.cls = COVID19 /\ last.occurring_on = 20200331 /\ last.is_atm
    /\ last.amount = 2001 /\ last.total = 5000 /\ last.current_balance = 3000
    /\ last.raised = "ok"

\* C7: for a restricted-tier account and a withdraw dated on or after the restriction
\* date that both breaches the minimum balance and violates a date-gated rule (ATM,
\* or over the daily limit), the error is InsufficientFundError.
C7_InsufficientFundsReportedFirst ==
    (/\ Done("BankAccount.withdraw")
     /\ last.cls \in Restricted
     /\ last.amount > 0
     /\ last.occurring_on >= 20200401
     /\ last.current_balance - last.amount < TierMinimum(last.cls)
     /\ (last.is_atm \/ last.total + last.amount > 1000))
    => last.raised = "InsufficientFundError"

C7_Witness ==
    /\ Done("BankAccount.withdraw")
    /\ last.cls = COMPANY /\ last.occurring_on = 20200401 /\ ~last.is_atm
    /\ last.amount = 2001 /\ last.current_balance = 7000 /\ last.total = 0
    /\ last.raised = "InsufficientFundError"

\* C8: Ledger.get_total_withdrawn_amount_by_date(a, d) is the sum of the amounts of
\* exactly the Debit transactions of account a that occurred on date d, and is never
\* negative.
C8_WithdrawnOnThatDateOnly ==
    (last.op = "Ledger.get_total_withdrawn_amount_by_date")
    => /\ last.result =
            SumAmounts(transactions,
                       {i \in Positions(transactions, last.account_id, DEBIT) :
                            transactions[i].occurred_on = last.occurring_on})
       /\ last.result >= 0

\* debits of the account dated CURRENT_DATE, taken from the log itself
WithdrawnOn(txns, account_id, date) ==
    SumAmounts(txns, {i \in Positions(txns, account_id, DEBIT) : txns[i].occurred_on = date})

\* C5: for a restricted-tier account with sufficient funds, a non-ATM withdraw dated
\* on or after the restriction date succeeds if and only if the amount withdrawn so
\* far that day plus the amount is at most 1000, and fails with
\* DailyWithdrawalLimitError otherwise; through the Application the day's total is
\* the one accumulated in the ledger.
C5_DailyLimitThroughApplication ==
    [][(/\ last'.op = "Application.withdraw"
        /\ stored_class(accounts, last'.account_id) \in Restricted
        /\ last'.amount > 0
        /\ ~last'.is_atm
        /\ CURRENT_DATE >= 20200401
        /\ get_account_balance(transactions, last'.account_id) - last'.amount
               >= TierMinimum(stored_class(accounts, last'.account_id)))
       => IF WithdrawnOn(transactions, last'.account_id, CURRENT_DATE) + last'.amount <= 1000
          THEN /\ last'.raised = "ok"
               /\ transactions' = Append(transactions,
                      Transaction_create(last'.account_id, DEBIT, last'.amount, CURRENT_DATE))
          ELSE /\ last'.raised = "DailyWithdrawalLimitError"
               /\ transactions' = transactions]_vars

\* C9: on a restricted account whose history is a deposit of 3000 and an ATM
\* withdrawal of 2000 dated the day before the restriction date (balance 1000), a
\* non-ATM withdrawal of 200 dated on the restriction date succeeds and leaves the
\* balance at 800, no debit dated on the restriction date preceding it.
C9_ScenarioEndsAt800 ==
    [][(/\ last'.op = "Application.withdraw"
        /\ stored_class(accounts, last'.account_id) = COVID19
        /\ SelectSeq(transactions, LAMBDA t : t.account_id = last'.account_id)
               = << Transaction_create(last'.account_id, CREDIT, 3000, 20200331),
                    Transaction_create(last'.account_id, DEBIT, 2000, 20200331) >>
        /\ CURRENT_DATE = 20200401
        /\ last'.amount = 200
        /\ ~last'.is_atm)
       => /\ last'.raised = "ok"
          /\ get_account_balance(transactions', last'.account_id) = 800]_vars

ApplicationCalls ==
    {"Application.open_account", "Application.change_current_date", "Application.deposit",
     "Application.withdraw", "Application.close_account", "Application.get_account_details"}

\* C10: closing a company account always fails with ClosingCompanyAccountError, for
\* every balance and date; the failed Application.close_account records no
\* transaction and leaves the account live, so no Application call removes a company
\* account from the live set.
C10_CompanyAccountNeverCloses ==
    [][/\ (/\ last'.op = "Application.close_account"
           /\ stored_class(accounts, last'.account_id) = COMPANY)
          => /\ last'.raised = "ClosingCompanyAccountError"
             /\ transactions' = transactions
             /\ accounts' = accounts
       /\ (last'.op \in ApplicationCalls)
          => \A id \in account_keys(accounts) :
                 stored_class(accounts, id) = COMPANY
                     => (id \in account_keys(accounts') /\ stored_class(accounts', id) = COMPANY)
      ]_vars

\* C11: for every live non-company account whose balance is not negative,
\* Application.close_account succeeds: with balance 0 it records no transaction and
\* returns none, with balance B > 0 it records exactly one Debit of B for the account,
\* and in both cases the id is no longer in the live set.
C11_CloseNonCompanySucceeds ==
    [][(/\ last'.op = "Application.close_account"
        /\ last'.account_id \in account_keys(accounts)
        /\ stored_class(accounts, last'.account_id) \in {INT, COVID19}
        /\ get_account_balance(transactions, last'.account_id) >= 0)
       => LET B == get_account_balance(transactions, last'.account_id)
              debit == Transaction_create(last'.account_id, DEBIT, B, CURRENT_DATE)
          IN  /\ last'.raised = "ok"
              /\ IF B > 0
                 THEN transactions' = Append(transactions, debit) /\ last'.transaction = debit
                 ELSE transactions' = transactions /\ last'.transaction = NoTransaction
              /\ last'.account_id \notin account_keys(accounts')]_vars

\* C12: close() of a restricted (covid) account dated on or after the restriction
\* date, with a balance B > 0 such that the amount withdrawn that day plus B exceeds
\* 1000, fails with DailyWithdrawalLimitError and produces no transaction; the call
\* changes nothing of the ledger, so the account stays open.
C12_CloseOverDailyLimitFails ==
    (/\ Done("BankAccount.close")
     /\ last.cls = COVID19
     /\ last.occurring_on >= 20200401
     /\ last.current_balance > 0
     /\ last.total + last.current_balance > 1000)
    => /\ last.raised = "DailyWithdrawalLimitError"
       /\ last.transaction = NoTransaction
       /\ accounts = <<>> /\ transactions = <<>>

C12_Witness ==
    /\ Done("BankAccount.close")
    /\ last.cls = COVID19 /\ last.occurring_on = 20200401
    /\ last.current_balance = 1000 /\ last.total = 1
    /\ last.raised = "DailyWithdrawalLimitError"

\* ids handed out by open_account that are no longer in the live set: closed ids
Closed == {id \in 1..nextAccountId : id \notin account_keys(accounts)}

ResolvingCalls ==
    {"Application.deposit", "Application.withdraw", "Application.close_account",
     "Application.get_account_details"}

\* C13: closed is terminal: once the close step (Ledger.close_account, the step by
\* which Application.close_account closes) has removed id from the live set, id is
\* absent in every later state, a reload of the ledger file included, and every
\* later deposit, withdraw, close_account or get_account_details on id fails with
\* AccountNotFoundError.
C13_ClosedIsTerminal ==
    [][\A id \in Closed :
          /\ id \notin account_keys(accounts')
          /\ (last'.op \in ResolvingCalls /\ last'.account_id = id)
                 => /\ last'.raised = "AccountNotFoundError"
                    /\ transactions' = transactions]_vars

C13_Witness ==
    /\ last.op = "Application.close_account"
    /\ last.account_id \in Closed
    /\ last.raised = "AccountNotFoundError"
    /\ accounts # <<>>
    /\ \E i \in DOMAIN transactions : transactions[i].account_id = last.account_id

\* C14: Ledger.get_account(id) succeeds for every id of the live set, returning an
\* account of the tier id was opened with whose account_id is id, and fails, with
\* AccountNotFoundError, exactly when id is not in the live set.
C14_GetAccountResolvesLiveIds ==
    (last.op = "Ledger.get_account")
    => IF last.account_id \in account_keys(accounts)
       THEN /\ last.raised = "ok"
            /\ last.result = last.account_id
            /\ last.cls = stored_class(accounts, last.account_id)
       ELSE last.raised = "AccountNotFoundError"

\* C15: every Application.deposit, withdraw or close_account that fails (with an
\* account error, or with any other error) leaves the ledger unchanged: no
\* transaction is added, every balance is the same, the live set is the same.
C15_FailedCallLeavesLedgerUnchanged ==
    [][(/\ last'.op \in {"Application.deposit", "Application.withdraw",
                         "Application.close_account"}
        /\ last'.raised # "ok")
       => /\ transactions' = transactions
          /\ accounts' = accounts
          /\ durable' = durable
          /\ \A a \in AccountIds :
                 get_account_balance(transactions', a) = get_account_balance(transactions, a)
      ]_vars

C15_Witness ==
    /\ last.op = "Application.withdraw"
    /\ last.raised = "AccountNotFoundError"
    /\ last.account_id \in Closed
    /\ last.amount = 200
    /\ get_account_balance(transactions, last.account_id) = 2000
    /\ accounts # <<>>

\* C16: for a live foreign or restricted account Application.deposit with amount > 0
\* succeeds at any date and balance: it records exactly one Credit of that amount
\* for that account, and the derived balance becomes the previous one plus the amount.
C16_DepositAlwaysSucceeds ==
    [][(/\ last'.op = "Application.deposit"
        /\ last'.account_id \in account_keys(accounts)
        /\ stored_class(accounts, last'.account_id) \in {INT, COVID19}
        /\ last'.amount > 0)
       => /\ last'.raised = "ok"
          /\ transactions' = Append(transactions,
                 Transaction_create(last'.account_id, CREDIT, last'.amount, CURRENT_DATE))
          /\ get_account_balance(transactions', last'.account_id)
                 = get_account_balance(transactions, last'.account_id) + last'.amount]_vars

\* C17: deposit() on a company account whose current balance is 0 fails with
\* AccountError and produces no transaction when the amount is below 5000, and
\* succeeds with a Credit that makes the balance equal to the amount when it is 5000
\* or more; when the balance is not 0 the rule does not apply: any amount > 0 is
\* accepted and AccountError is never raised.
C17_CompanyFirstDeposit ==
    (Done("BankAccount.deposit") /\ last.cls = COMPANY)
    => LET credit == Transaction_create(last.account_id, CREDIT, last.amount, last.occurring_on)
       IN  IF last.current_balance = 0
           THEN IF last.amount < 5000
                THEN last.raised = "AccountError" /\ last.transaction = NoTransaction
                ELSE /\ last.raised = "ok"
                     /\ last.transaction = credit
                     /\ last.current_balance + last.transaction.amount = last.amount
           ELSE /\ last.raised # "AccountError"
                /\ last.amount > 0 => (last.raised = "ok" /\ last.transaction = credit)

C17_Witness ==
    /\ Done("BankAccount.deposit")
    /\ last.cls = COMPANY /\ last.current_balance = 0 /\ last.amount = 4999
    /\ last.raised = "AccountError"

\* C18: every transaction produced by deposit, withdraw or close has amount > 0: a
\* deposit or withdraw of an amount <= 0 is rejected and produces no transaction, on
\* every tier, and the Debit produced by a close has amount equal to a balance > 0.
C18_TransactionAmountsPositive ==
    (last.raised # "pending" /\ last.op # "none")
    => /\ last.transaction # NoTransaction => last.transaction.amount > 0
       /\ (last.op \in {"BankAccount.deposit", "BankAccount.withdraw"} /\ last.amount <= 0)
              => (last.raised # "ok" /\ last.transaction = NoTransaction)
       /\ (last.op = "BankAccount.close" /\ last.transaction # NoTransaction)
              => /\ last.transaction.transaction_type = DEBIT
                 /\ last.transaction.amount = last.current_balance
                 /\ last.current_balance > 0

C18_Witness ==
    /\ Done("BankAccount.deposit")
    /\ last.cls = INT /\ last.amount = 0 /\ last.current_balance = 1000
    /\ last.raised = "AssertionError" /\ last.transaction = NoTransaction

\* C19: after Application.change_current_date(d) the date returned by
\* date_helper.get_todays_date() is d, as is the date the Application passes to
\* later deposit, withdraw and close_account calls.
C19_TodaysDateFollowsChange ==
    (last.op = "Application.change_current_date")
    => (todays_date = last.occurring_on /\ CURRENT_DATE = last.occurring_on)

\* C20: for every live account Application.get_account_details(id) reports the id
\* asked for, a date of opening, the balance derived from the ledger at that moment
\* and, as type, the tier the account was opened with: 'international', 'covid' or
\* 'company'.
C20_DetailsOfLiveAccount ==
    [][(/\ last'.op = "Application.get_account_details"
        /\ last'.account_id \in account_keys(accounts))
       => /\ last'.raised = "ok"
          /\ last'.result.account_id = str(last'.account_id)
          /\ \E opened_on \in Dates : last'.result.opened_on = strftime(opened_on)
          /\ last'.result.balance = PLN(get_account_balance(transactions, last'.account_id))
          /\ \E account_type \in AccountTypes :
                 /\ ACCOUNT_TYPE_CLASS_MAPPING(account_type)
                        = stored_class(accounts, last'.account_id)
                 /\ last'.result.type = account_type]_vars

MutatingCalls ==
    {"Application.open_account", "Application.deposit", "Application.withdraw",
     "Application.close_account", "Ledger.save_object", "Ledger.close_account"}

\* C21: after every successful mutating call (open_account, deposit, withdraw,
\* close_account, Ledger.save, Ledger.close_account) loading the ledger file gives
\* exactly the accounts and transactions held in memory, in the same order, so that
\* Ledger.load() changes nothing; loading an empty file yields the empty store.
C21_PersistThenLoadIsIdentity ==
    [][/\ (last'.op \in MutatingCalls /\ last'.raised = "ok")
          => /\ ~durable'.eof
             /\ pickle_load(durable').accounts = accounts'
             /\ pickle_load(durable').transactions = transactions'
       /\ (last'.op = "Ledger.load")
          => /\ accounts' = accounts /\ transactions' = transactions
             /\ durable.eof => (accounts' = <<>> /\ transactions' = <<>>)]_vars

C21_Witness ==
    /\ last.op = "Ledger.load"
    /\ Len(accounts) = 2
    /\ Len(transactions) = 2
    /\ accounts[1].cls # accounts[2].cls
    /\ transactions[1] # transactions[2]

\* C22: when the persist step of a mutating call fails, the failure propagates and,
\* once the call has returned, the store in memory holds what the ledger file holds:
\* the account, transaction or removal that was not persisted is not visible in
\* memory only.
C22_FailedPersistLeavesNoDivergence ==
    [][(last'.raised = "OSError")
       => /\ accounts' = pickle_load(durable').accounts
          /\ transactions' = pickle_load(durable').transactions]_vars

\* C23: the transaction log is append-only: every step adds zero or one transaction
\* at the end and leaves the recorded ones as they are, a close of an account
\* included, whose transactions stay in the log; an Application call changes the log
\* only if it is a deposit, withdraw or close_account that succeeded.
C23_LogIsAppendOnly ==
    [][/\ Len(transactions') \in {Len(transactions), Len(transactions) + 1}
       /\ SubSeq(transactions', 1, Len(transactions)) = transactions
       /\ (last'.op \in ApplicationCalls /\ transactions' # transactions)
          => /\ last'.op \in {"Application.deposit", "Application.withdraw",
                              "Application.close_account"}
             /\ last'.raised = "ok"]_vars

C23_Witness ==
    /\ last.op = "Ledger.close_account" /\ last.raised = "ok"
    /\ last.account_id \notin account_keys(accounts)
    /\ Len(SelectSeq(transactions, LAMBDA t : t.account_id = last.account_id)) = 2

\* C24: open_account of any type adds the account to the live set under an id that
\* is the id of no live and of no closed account, with derived balance 0 and no
\* transaction, and leaves every other account and every transaction unchanged.
C24_OpenAccountIsFresh ==
    [][(last'.op = "Application.open_account")
       => /\ last'.raised = "ok"
          /\ last'.result \notin account_keys(accounts)
          /\ last'.result \notin 1..nextAccountId
          /\ accounts' = Append(accounts,
                 [account_id |-> last'.result, cls |-> last'.cls])
          /\ last'.cls \in Classes
          /\ transactions' = transactions
          /\ get_account_balance(transactions', last'.result) = 0
          /\ \A i \in DOMAIN transactions' : transactions'[i].account_id # last'.result]_vars

C24_Witness ==
    /\ last.op = "Application.open_account" /\ last.raised = "ok"
    /\ last.cls = COMPANY /\ last.result = 2
    /\ all_account_ids(accounts) = <<1, 2>>
    /\ Len(transactions) = 2
    /\ get_account_balance(transactions, 1) = 2000

\* position of a live id in the enumeration of the accounts
PositionOf(store_accounts, id) ==
    CHOOSE i \in DOMAIN store_accounts : store_accounts[i].account_id = id

\* C25: Ledger.close_account(id) on a live id removes exactly that id from the live
\* set and leaves every other account, their order and every transaction unchanged;
\* on an absent id it fails with AccountNotFoundError and changes nothing.
C25_CloseAccountFrame ==
    [][(last'.op = "Ledger.close_account")
       => IF last'.account_id \in account_keys(accounts)
          THEN /\ last'.raised = "ok"
               /\ account_keys(accounts') = account_keys(accounts) \ {last'.account_id}
               /\ \A id \in account_keys(accounts') :
                      stored_class(accounts', id) = stored_class(accounts, id)
               /\ \A a, b \in account_keys(accounts') :
                      (PositionOf(accounts', a) < PositionOf(accounts', b))
                          <=> (PositionOf(accounts, a) < PositionOf(accounts, b))
               /\ transactions' = transactions
          ELSE /\ last'.raised = "AccountNotFoundError"
               /\ accounts' = accounts
               /\ transactions' = transactions
               /\ durable' = durable]_vars

C25_Witness ==
    /\ last.op = "Ledger.close_account" /\ last.raised = "ok"
    /\ last.account_id = 1
    /\ account_keys(accounts) = {2}
    /\ transactions # <<>>

\* C27: for a foreign account a withdraw of amount > 0 succeeds if and only if
\* current_balance - amount >= 0, whatever the method, the date and the amount
\* already withdrawn that day; it fails with InsufficientFundError otherwise, and a
\* withdraw of the whole balance succeeds and leaves balance 0.
C27_ForeignWithdrawOnlyFunds ==
    (Done("BankAccount.withdraw") /\ last.cls = INT /\ last.amount > 0)
    => IF last.current_balance - last.amount >= 0
       THEN /\ last.raised = "ok"
            /\ last.transaction.transaction_type = DEBIT
            /\ last.transaction.amount = last.amount
            /\ last.transaction.account_id = last.account_id
            /\ last.amount = last.current_balance
                   => Transaction_radd(last.transaction, last.current_balance) = 0
       ELSE last.raised = "InsufficientFundError" /\ last.transaction = NoTransaction

C27_Witness ==
    /\ Done("BankAccount.withdraw")
    /\ last.cls = INT /\ last.amount = 1000 /\ last.current_balance = 1000
    /\ last.is_atm /\ last.occurring_on = 20200402 /\ last.total = 5000
    /\ last.raised = "ok"

\* C28: a deposit or withdraw with amount <= 0 fails with an assertion failure, not
\* with an error of the AccountError family, on every tier and at every balance, a
\* company account with balance 0 included.
C28_NonPositiveAmountIsAssertion ==
    (/\ last.op \in {"BankAccount.deposit", "BankAccount.withdraw"}
     /\ last.raised # "pending"
     /\ last.amount <= 0)
    => last.raised = "AssertionError"

C30_InterleavedWithdrawalsBothPass ==
    LET a == inflight[1].account_id
        recorded == {caller \in Callers : inflight[caller].raised = "ok"}
        before == get_account_balance(transactions, a)
                  + (IF 1 \in recorded THEN inflight[1].amount ELSE 0)
                  + (IF 2 \in recorded THEN inflight[2].amount ELSE 0)
    IN  (/\ \A caller \in Callers : inflight[caller].pc = "done"
         /\ inflight[2].account_id = a
         /\ a \in account_keys(accounts)
         /\ stored_class(accounts, a) = INT
         /\ before - inflight[1].amount >= 0
         /\ before - inflight[2].amount >= 0)
        => /\ recorded = Callers
           /\ get_account_balance(transactions, a)
                  = before - inflight[1].amount - inflight[2].amount
           /\ (before < inflight[1].amount + inflight[2].amount)
                  => get_account_balance(transactions, a) < 0

\* C31: the balance of a company account is either exactly 0 or at least 5000: from
\* a balance of 0 or of at least 5000, every deposit, withdraw or close leaves the
\* balance (the balance before, plus the Credit or minus the Debit the call returned)
\* at 0 or at least 5000, never strictly between; it stays 0 only when the call
\* returned no transaction, and from at least 5000 it never comes back below 5000.
C31_CompanyBalanceZeroOrAtLeastMinimum ==
    (/\ last.op \in {"BankAccount.deposit", "BankAccount.withdraw", "BankAccount.close"}
     /\ last.raised # "pending"
     /\ last.cls = COMPANY
     /\ (last.current_balance = 0 \/ last.current_balance >= 5000))
    => LET balance == IF last.transaction = NoTransaction THEN last.current_balance
                      ELSE Transaction_radd(last.transaction, last.current_balance)
       IN  /\ last.raised # "ok" => last.transaction = NoTransaction
           /\ balance = 0 \/ balance >= 5000
           /\ balance = 0 => last.transaction = NoTransaction
           /\ last.current_balance >= 5000 => balance >= 5000

C31_Witness ==
    /\ Done("BankAccount.withdraw")
    /\ last.cls = COMPANY /\ last.current_balance = 7000 /\ last.amount = 1000
    /\ ~last.is_atm /\ last.total = 0
    /\ last.raised = "ok"
    /\ last.transaction = Transaction_create(last.account_id, DEBIT, 1000, last.occurring_on)

\* the transactions of one account, in the order of the ledger
Own(txns, account_id) == SelectSeq(txns, LAMBDA transaction : transaction.account_id = account_id)

\* C32: every Application.deposit, withdraw or close_account on account A, and every
\* write to the ledger these calls are made of (Ledger.save_object of a transaction
\* of A, Ledger.close_account of A), leaves unchanged the derived balance, the
\* withdrawn total of every day, the transactions and the live or closed status of
\* every other account B; and the outcome of the call on A does not depend on the
\* transactions of B: the resolution of A, the balance and the withdrawn total the
\* call reads are those of a ledger that holds the transactions of A alone.
C32_OtherAccountsUntouched ==
    [][\A A \in AccountIds :
          (/\ last'.op \in {"Application.deposit", "Application.withdraw",
                            "Application.close_account", "Ledger.save_object",
                            "Ledger.close_account"}
           /\ last'.account_id = A)
          => /\ \A B \in AccountIds \ {A} :
                    /\ get_account_balance(transactions', B) = get_account_balance(transactions, B)
                    /\ \A date \in Dates :
                           /\ WithdrawnOn(transactions', B, date) = WithdrawnOn(transactions, B, date)
                           /\ get_total_withdrawn_amount_by_date(transactions', B, date)
                                  = get_total_withdrawn_amount_by_date(transactions, B, date)
                    /\ Own(transactions', B) = Own(transactions, B)
                    /\ (B \in account_keys(accounts')) <=> (B \in account_keys(accounts))
                    /\ stored_class(accounts', B) = stored_class(accounts, B)
             /\ (last'.op \in {"Application.deposit", "Application.withdraw",
                               "Application.close_account"})
                    => /\ get_account(accounts, transactions, A, todays_date)
                              = get_account(accounts, Own(transactions, A), A, todays_date)
                       /\ last'.current_balance = get_account_balance(Own(transactions, A), A)
                       /\ last'.op # "Application.deposit"
                              => last'.total = get_total_withdrawn_amount_by_date(
                                                   Own(transactions, A), A, CURRENT_DATE)]_vars

C32_Witness ==
    /\ last.op = "Application.withdraw" /\ last.account_id = 2 /\ last.amount = 200
    /\ account_keys(accounts) = {1, 2}
    /\ transactions = <<Transaction_create(1, CREDIT, 3000, 20200331),
                        Transaction_create(1, DEBIT, 2000, 20200401)>>
    /\ get_account_balance(transactions, 1) = 1000
    /\ get_total_withdrawn_amount_by_date(transactions, 1, CURRENT_DATE) = 2000
    /\ last.current_balance = 0 /\ last.total = 0

====
